---- MODULE Spec2Model ----
(***************************************************************************)
(* A model of jigna's Broker/Bridge object bridge (src/jigna/jigna_view.py). *)
(*                                                                         *)
(* Python strings are sequences of one-character strings, so that slicing  *)
(* (trait_name[:-len('_items')]) and str(id(obj)) are computed, not        *)
(* assumed.  Host values are records of one shape (Val); host objects live *)
(* in a small heap with CPython addresses, reference-counted temporaries   *)
(* and address reuse.                                                      *)
(*                                                                         *)
(* Beside the broker (Spec, SpecItems) the module models, each under a     *)
(* specification of its own: the file server's threads and guess_type of   *)
(* core/wsgi.py (SpecWsgi), the Broker.bridge links (SpecLinks), the       *)
(* WebViewContainer of core/web_view_container.py (SpecWidget) and the     *)
(* page load of JignaView.show (SpecLoad).                                 *)
(***************************************************************************)
EXTENDS Integers, Sequences, FiniteSets, TLC

\* ---------------------------------------------------------------- bounds
\* longest trait list the host appends to
MaxLen == 2
\* largest integer the host or the remote side writes
MaxInt == 1

\* ------------------------------------------------------- python strings
Digits == <<"0", "1", "2", "3", "4", "5", "6", "7", "8", "9">>

RECURSIVE Str(_)
\* str(n) of a non-negative int: its decimal digits
Str(n) == IF n < 10 THEN <<Digits[n + 1]>>
          ELSE Str(n \div 10) \o <<Digits[(n % 10) + 1]>>

X == <<"x">>
ITEMS == <<"i", "t", "e", "m", "s">>
\* the literal '_items' of line 302
ITEMS_SUFFIX == <<"_", "i", "t", "e", "m", "s">>
NOSUCH == <<"n", "o">>
FAIL == <<"f", "a", "i", "l">>
QUIT == <<"q", "u", "i", "t">>
SETX == <<"s", "e", "t", "x">>
NEWLIST == <<"n", "e", "w">>
BLINK == <<"b", "l", "i", "n", "k">>
SUB == <<"s", "u", "b">>
ME == <<"m", "e">>
APPEND == <<"a", "p", "p", "e", "n", "d">>
COUNT == <<"c", "o", "u", "n", "t">>
NAME == <<"n", "a", "m", "e">>
NAME_ITEMS == <<"n", "a", "m", "e", "_", "i", "t", "e", "m", "s">>

\* ---------------------------------------------------------- host values
NoneV == [t |-> "none", i |-> 0, s |-> <<>>, o |-> "", d |-> {}]
IntV(n) == [t |-> "int", i |-> n, s |-> <<>>, o |-> "", d |-> {}]
StrV(cs) == [t |-> "str", i |-> 0, s |-> cs, o |-> "", d |-> {}]
RefV(o) == [t |-> "ref", i |-> 0, s |-> <<>>, o |-> o, d |-> {}]
\* a dict: a set of entries <<key, form, type, value>>
DictV(entries) == [t |-> "dict", i |-> 0, s |-> <<>>, o |-> "", d |-> entries]
\* repr(sys.exc_value): a str naming the failure and its message
ReprV(cls, msg) == [t |-> "repr", i |-> 0, s |-> msg, o |-> cls, d |-> {}]
\* the JSON object {"kind": kind, "args": []}
ReqV(kind) == [t |-> "req", i |-> 0, s |-> <<>>, o |-> kind, d |-> {}]
\* a TraitListEvent, the 'new' of an <name>_items notification
ListEventV == [t |-> "listevent", i |-> 0, s |-> <<>>, o |-> "", d |-> {}]

\* ------------------------------------------------------------- the heap
\* A: a HasTraits instance with traits x (Any) and items (List)
\* LA: the TraitListObject held by A.items
\* LB: the TraitListObject traits makes when a list is assigned to A.items
\* P: an instance of a plain class (has __dict__, is no HasTraits)
\* T1, T2: lists the host creates at run time
Instances == {"A", "P"}
Temps == {"T1", "T2"}
\* a TraitListObject is a list and, as an instance of a python subclass of
\* list, has a __dict__ (its trait, object, name and name_items)
TraitLists == {"LA", "LB"}
Lists == TraitLists \cup Temps
Objs == Instances \cup Lists

IsHasTraits(v) == v.t = "ref" /\ v.o = "A"
\* isinstance(obj, list)
IsList(v) == v.t = "ref" /\ v.o \in Lists
\* hasattr(obj, '__dict__')
HasDict(v) == v.t = "ref" /\ v.o \in Instances \cup TraitLists

\* CPython addresses: rooted objects keep theirs, temporaries share a pool,
\* TraitListObjects (a larger size class) another, small ints are cached at
\* fixed addresses
RootAddr == [o \in {"A", "P", "LA"} |->
               IF o = "A" THEN 10 ELSE IF o = "LA" THEN 11 ELSE 12]
TempAddrs == {14}
TraitListAddrs == {11, 15}
SmallIntAddr(n) == 90 + n

VARIABLES
  attrs,      \* [Instances \cup TraitLists -> [attribute name -> Val]]: the
              \* objects' __dict__
  items,      \* [Lists -> Seq(Val)]: the lists' elements
  addr,       \* [Objs -> Nat]: id(obj); 0 when the object does not exist
  reg,        \* Broker._id_to_object_map: str id -> Val
  notifiers,  \* [Objs -> Nat]: anytrait notifiers bound to the broker
  ctx,        \* Broker.context: name -> str id
  created,    \* the view's broker has been constructed
  shown,      \* history: name -> object of the show() that built the broker
  issued,     \* history: [Objs -> set of ids the object was registered under]
  pushed,     \* the events the last operation handed to Bridge.send_event
  req,        \* the request the last operation dispatched
  resp,       \* what Broker.handle_request gave its caller for req
  infoCalls,  \* history: get_instance_info calls handled for A, up to 2
  calls,      \* the host methods the last operation invoked, with arguments
  depth,      \* the most Broker.handle_request frames the last operation
              \* had on the stack at once; 0 when the broker was not called
  last        \* the last operation and its operands

\* the broker's side of the program (jigna_view.py, Broker and Bridge)
core == <<attrs, items, addr, reg, notifiers, ctx, created, shown, issued,
          pushed, req, resp, infoCalls, calls, depth, last>>

VARIABLES
  mimeInitialized, \* wsgi.mimeInitialized
  mimeLock,        \* wsgi.mimeLock: the thread that holds it, or NoThread
  initCalls,       \* history: the calls of mimetypes.init() begun
  initDone,        \* history: the calls of mimetypes.init() returned
  thr              \* [Threads -> the frame of the FileLoader call it serves]

wsgi == <<mimeInitialized, mimeLock, initCalls, initDone, thr>>

VARIABLES
  bridge,          \* [Brokers -> Bridges or None]: Broker.bridge
  broker           \* [Bridges -> Brokers or None]: Bridge.broker

links == <<bridge, broker>>

VARIABLES
  control,         \* WebViewContainer.control: the number of the control in
                   \* controls, 0 for None
  controls,        \* the zoom factor of every control created so far
  zoomAttr,        \* WebViewContainer._zoom; 0 when there is no such attribute
  wlast            \* the last call made on the container and its outcome

widget == <<control, controls, zoomAttr, wlast>>

VARIABLES
  loadFinished,    \* JignaView._load_finished
  loads,           \* history: the loads _load_html has started
  finished,        \* history: the load whose loadFinished signal came last
  connections,     \* the connections of control.loadFinished to the view
  showPc           \* where the main thread is in JignaView.show

load == <<loadFinished, loads, finished, connections, showPc>>

\* the parts of the program beside the broker
ancillary == <<wsgi, links, widget, load>>

vars == <<core, ancillary>>

\* the host-side state the operators below thread through a call; active is
\* the number of Broker.handle_request frames on the stack
St == [attrs |-> attrs, items |-> items, addr |-> addr, reg |-> reg,
       notifiers |-> notifiers, ctx |-> ctx, issued |-> issued,
       pushed |-> <<>>, calls |-> <<>>, active |-> 0, depth |-> 0]

\* id(obj)
Id(s, v) == IF v.t = "ref" THEN s.addr[v.o] ELSE SmallIntAddr(v.i)

\* -------------------------------------------------------------- registry
\* a slip: the dict is rebound to {key: obj} instead of being updated
MapStoreRebinds(d, key, v) == (key :> v)

\* d[key] = obj on the registry dict
MapStore(d, key, v) == (key :> v) @@ d

Issue(s, key, v) == IF v.t = "ref"
                    THEN [s.issued EXCEPT ![v.o] = @ \cup {key}]
                    ELSE s.issued

\* a slip: register_object keys the entry by id(type(obj))
RegisterObjectByType(s, v) ==
  LET key == Str(Id(s, v) + 20)
  IN [s EXCEPT !.reg = MapStore(s.reg, key, v), !.issued = Issue(s, key, v)]

\* Broker.register_object
RegisterObject(s, v) ==
  LET key == Str(Id(s, v))
  IN [s EXCEPT !.reg = MapStore(s.reg, key, v), !.issued = Issue(s, key, v)]

\* Broker.register_objects: register every object of a set of objects
RECURSIVE RegisterObjects(_, _)
RegisterObjects(s, vs) ==
  IF vs = {} THEN s
  ELSE LET v == CHOOSE w \in vs : TRUE
       IN RegisterObjects(RegisterObject(s, v), vs \ {v})

\* ------------------------------------------------------------ marshaling
Wire(type, value) == [type |-> type, value |-> value]

\* a slip: _marshal encodes the id and forgets to store the object
MarshalForgets(s, v) ==
  IF IsList(v) THEN [s |-> s, w |-> Wire("list", StrV(Str(Id(s, v))))]
  ELSE IF HasDict(v)
  THEN [s |-> s, w |-> Wire("instance", StrV(Str(Id(s, v))))]
  ELSE [s |-> s, w |-> Wire("primitive", v)]

\* a slip: the test for __dict__ comes before the test for list
MarshalInstanceFirst(s, v) ==
  IF HasDict(v)
  THEN LET obj_id == Str(Id(s, v))
       IN [s |-> [s EXCEPT !.reg = MapStore(s.reg, obj_id, v),
                           !.issued = Issue(s, obj_id, v)],
           w |-> Wire("instance", StrV(obj_id))]
  ELSE IF IsList(v)
  THEN LET obj_id == Str(Id(s, v))
       IN [s |-> [s EXCEPT !.reg = MapStore(s.reg, obj_id, v),
                           !.issued = Issue(s, obj_id, v)],
           w |-> Wire("list", StrV(obj_id))]
  ELSE [s |-> s, w |-> Wire("primitive", v)]

\* Broker._marshal: the wire value and the state with obj registered
Marshal(s, v) ==
  IF IsList(v)
  THEN LET obj_id == Str(Id(s, v))
       IN [s |-> [s EXCEPT !.reg = MapStore(s.reg, obj_id, v),
                           !.issued = Issue(s, obj_id, v)],
           w |-> Wire("list", StrV(obj_id))]
  ELSE IF HasDict(v)
  THEN LET obj_id == Str(Id(s, v))
       IN [s |-> [s EXCEPT !.reg = MapStore(s.reg, obj_id, v),
                           !.issued = Issue(s, obj_id, v)],
           w |-> Wire("instance", StrV(obj_id))]
  ELSE [s |-> s, w |-> Wire("primitive", v)]

\* the registry lookup of _unmarshal finds its key
Resolves(r, w) == w.value.t = "str" /\ w.value.s \in DOMAIN r

\* a slip: _unmarshal uses dict.get, an unknown id decodes to None
UnmarshalGet(r, w) ==
  IF w.type = "primitive" THEN [ok |-> TRUE, v |-> w.value]
  ELSE IF Resolves(r, w) THEN [ok |-> TRUE, v |-> r[w.value.s]]
  ELSE [ok |-> TRUE, v |-> NoneV]

\* Broker._unmarshal: ok is FALSE when the lookup raises KeyError
Unmarshal(r, w) ==
  IF w.type = "primitive" THEN [ok |-> TRUE, v |-> w.value]
  ELSE IF Resolves(r, w) THEN [ok |-> TRUE, v |-> r[w.value.s]]
  ELSE [ok |-> FALSE, v |-> NoneV]

\* Broker._unmarshal_all: every argument is decoded, in order, before the
\* call; the first failing one raises
UnmarshalAll(r, ws) ==
  LET bad == {i \in 1..Len(ws) : ~Unmarshal(r, ws[i]).ok}
  IN [ok |-> bad = {},
      vals |-> [i \in 1..Len(ws) |-> Unmarshal(r, ws[i]).v],
      key |-> IF bad = {} THEN <<>>
              ELSE ws[CHOOSE i \in bad : \A j \in bad : i <= j].value.s]

\* ------------------------------------------------------ python semantics
\* the outcome of a call: the state it leaves, the exception class it raised
\* ("" when it returned), the exception's message, the value it returned
Ok(s, ret) == [s |-> s, exc |-> "", msg |-> <<>>, ret |-> ret]
Raise(s, cls, msg) == [s |-> s, exc |-> cls, msg |-> msg, ret |-> NoneV]

\* the object has a __dict__ for setattr to write and getattr to read
HasAttrs(s, v) == v.t = "ref" /\ v.o \in DOMAIN s.attrs

\* getattr(obj, name) for a data attribute
GetAttr(s, v, name) ==
  IF HasAttrs(s, v) /\ name \in DOMAIN s.attrs[v.o]
  THEN Ok(s, s.attrs[v.o][name])
  ELSE Raise(s, "AttributeError", name)

\* the event as the transport sees it: with the number of requests that
\* were being handled when it ran the remote handler
Pushed(s, event) ==
  [kind |-> event.kind, obj |-> event.obj,
   attribute_name |-> event.attribute_name, new_obj |-> event.new_obj,
   during |-> s.active]

\* a slip: an event for an attribute replaces the one waiting for it
SendEventMerges(s, event) ==
  LET keep == {i \in 1..Len(s.pushed) :
                 \/ s.pushed[i].obj # event.obj
                 \/ s.pushed[i].attribute_name # event.attribute_name}
      sel == SelectSeq([i \in 1..Len(s.pushed) |-> <<i, s.pushed[i]>>],
                       LAMBDA p : p[1] \in keep)
  IN [s EXCEPT !.pushed =
        Append([i \in 1..Len(sel) |-> sel[i][2]], Pushed(s, event))]

\* Bridge.send_event, reached through Broker.send_event: the event is
\* serialised and evaluated on the remote side before send_event returns
SendEvent(s, event) == [s EXCEPT !.pushed = Append(@, Pushed(s, event))]

\* a slip: the slice is one character short
StripItemsShort(trait_name) ==
  SubSeq(trait_name, 1, Len(trait_name) - Len(ITEMS_SUFFIX) + 1)

\* trait_name[:-len('_items')]
StripItems(trait_name) ==
  SubSeq(trait_name, 1, Len(trait_name) - Len(ITEMS_SUFFIX))

\* Broker._send_object_changed_event
SendObjectChangedEvent(s, obj, trait_name, new) ==
  LET isItems == new.t = "listevent"
      name == IF isItems THEN StripItems(trait_name) ELSE trait_name
      g == GetAttr(s, obj, name)
      new2 == IF isItems THEN g.ret ELSE new
      s1 == IF ~isItems /\ (HasDict(new) \/ IsList(new))
            THEN RegisterObject(s, new) ELSE s
      m == Marshal(s1, new2)
      event == [kind |-> "object_changed", obj |-> Str(Id(s, obj)),
                attribute_name |-> name, new_obj |-> m.w]
  IN IF isItems /\ g.exc # "" THEN g
     ELSE Ok(SendEvent(m.s, event), NoneV)

\* a slip: every call adds a notifier
OnTraitChangeAgain(s, o) == [s EXCEPT !.notifiers[o] = @ + 1]

\* obj.on_trait_change(handler): traits keeps one notifier per handler
OnTraitChange(s, o) ==
  IF s.notifiers[o] > 0 THEN s
  ELSE [s EXCEPT !.notifiers[o] = @ + 1]

RECURSIVE Notify(_, _, _, _, _)
\* traits calls each of the n anytrait notifiers of o; a handler's exception
\* is logged by traits and does not reach the code that mutated o
Notify(s, o, name, new, n) ==
  IF n = 0 THEN s
  ELSE Notify(SendObjectChangedEvent(s, RefV(o), name, new).s,
              o, name, new, n - 1)

\* a slip: the handler returns without the assignment
SetAttrSkips(s, v, name, new) == Ok(s, NoneV)

\* old == new as traits compares the two values of an assignment (python's
\* rich comparison): lists by their elements, other objects by identity
PyEq(s, a, b) ==
  IF IsList(a) /\ IsList(b) THEN s.items[a.o] = s.items[b.o] ELSE a = b

\* the __dict__ of a TraitListObject of A.items, those of its fields that
\* hold strings
TraitListDict == (NAME :> StrV(ITEMS))
                 @@ (NAME_ITEMS :> StrV(ITEMS \o ITEMS_SUFFIX))

FreeTraitLists(s) == {l \in TraitLists : s.addr[l] = 0}
NewTraitList(s) == CHOOSE l \in FreeTraitLists(s) : TRUE

\* TraitListObject(trait, object, name, value): a new list object with the
\* elements of value, at the lowest free block of its size class
AllocTraitList(s, elems) ==
  LET free == TraitListAddrs \ {s.addr[l] : l \in TraitLists}
  IN [s EXCEPT !.addr[NewTraitList(s)] =
                  CHOOSE a \in free : \A b \in free : a <= b,
               !.items[NewTraitList(s)] = elems,
               !.attrs[NewTraitList(s)] = TraitListDict]

\* setattr(obj, name, value): a List trait stores a new TraitListObject
\* made from the assigned list, any other attribute the assigned object
SetAttr(s, v, name, new) ==
  IF ~HasAttrs(s, v)
  THEN Raise(s, "AttributeError", name)
  ELSE IF name \notin DOMAIN s.attrs[v.o]
  THEN Ok([s EXCEPT !.attrs[v.o] = (name :> new) @@ @], NoneV)
  ELSE IF IsHasTraits(v) /\ name = ITEMS /\ ~IsList(new)
  THEN Raise(s, "TraitError", name)
  ELSE LET wrap == IsHasTraits(v) /\ name = ITEMS
           val == IF wrap THEN RefV(NewTraitList(s)) ELSE new
           s0 == IF wrap THEN AllocTraitList(s, s.items[new.o]) ELSE s
           old == s.attrs[v.o][name]
           s1 == [s0 EXCEPT !.attrs[v.o][name] = val]
       IN IF IsHasTraits(v) /\ ~PyEq(s1, old, val)
          THEN Ok(Notify(s1, v.o, name, val, s1.notifiers[v.o]), NoneV)
          ELSE Ok(s1, NoneV)

\* python's index normalisation: -1 is the last element
Index(n, i) == IF i < 0 THEN i + n + 1 ELSE i + 1

\* obj[index]
GetItem(s, v, idx) ==
  IF ~IsList(v) \/ idx.t # "int" THEN Raise(s, "TypeError", <<>>)
  ELSE LET k == Index(Len(s.items[v.o]), idx.i)
       IN IF k \in 1..Len(s.items[v.o]) THEN Ok(s, s.items[v.o][k])
          ELSE Raise(s, "IndexError", Str(IF idx.i < 0 THEN 0 ELSE idx.i))

\* a TraitListObject tells the object it was made for (A) of a change of
\* its elements, under its name_items
ItemsChanged(s, o) ==
  IF o \in TraitLists
  THEN Notify(s, "A", s.attrs[o][NAME_ITEMS].s, ListEventV, s.notifiers["A"])
  ELSE s

\* obj[index] = value
SetItem(s, v, idx, val) ==
  IF ~IsList(v) \/ idx.t # "int" THEN Raise(s, "TypeError", <<>>)
  ELSE LET k == Index(Len(s.items[v.o]), idx.i)
       IN IF k \notin 1..Len(s.items[v.o])
          THEN Raise(s, "IndexError", Str(IF idx.i < 0 THEN 0 ELSE idx.i))
          ELSE LET s1 == [s EXCEPT !.items[v.o][k] = val]
               IN IF s.items[v.o][k] = val THEN Ok(s1, NoneV)
                  ELSE Ok(ItemsChanged(s1, v.o), NoneV)

\* obj.append(value)
ListAppend(s, o, val) ==
  ItemsChanged([s EXCEPT !.items[o] = Append(@, val)], o)

\* len(obj)
PyLen(s, v) ==
  IF IsList(v) THEN Ok(s, IntV(Len(s.items[v.o])))
  ELSE IF v.t \in {"str", "repr"} THEN Ok(s, IntV(Len(v.s)))
  ELSE Raise(s, "TypeError", <<>>)

\* ------------------------------------------------------- the host's model
\* The class of A declares setx(v): self.x = v; fail(): raises ValueError;
\* quit(): sys.exit(), which raises SystemExit; new(): returns a new list;
\* blink(v): self.x = v, then self.x = 0; sub(a, b): returns a - b;
\* me(): returns self.  P's class declares no method.
\* the methods a python class of the object defines with def
PythonMethods(v) ==
  IF IsHasTraits(v) THEN {SETX, FAIL, QUIT, NEWLIST, BLINK, SUB, ME}
  ELSE IF v.t = "ref" /\ v.o \in TraitLists THEN {APPEND}
  ELSE {}
\* the methods of the built-in list the object's class does not override
BuiltinMethods(v) ==
  IF v.t = "ref" /\ v.o \in TraitLists THEN {COUNT}
  ELSE IF IsList(v) THEN {APPEND, COUNT}
  ELSE {}
MethodsOf(v) == PythonMethods(v) \cup BuiltinMethods(v)
Arity(m) == IF m \in {SETX, APPEND, BLINK, COUNT} THEN 1
            ELSE IF m = SUB THEN 2 ELSE 0

FreeAddrs(s) == TempAddrs \ {s.addr[t] : t \in Temps}

\* a new list object: CPython gives it the lowest free block
Alloc(s, fresh) ==
  [s EXCEPT !.addr[fresh] = CHOOSE a \in FreeAddrs(s) :
                              \A b \in FreeAddrs(s) : a <= b,
            !.items[fresh] = <<>>]

\* the body of method m of obj, run on args
Body(s, v, m, args, fresh) ==
  CASE m = SETX -> SetAttr(s, v, X, args[1])
    [] m = FAIL -> Raise(s, "ValueError", FAIL)
    [] m = QUIT -> Raise(s, "SystemExit", <<>>)
    [] m = NEWLIST -> Ok(Alloc(s, fresh), RefV(fresh))
    [] m = BLINK -> SetAttr(SetAttr(s, v, X, args[1]).s, v, X, IntV(0))
    [] m = SUB -> IF args[1].t = "int" /\ args[2].t = "int"
                  THEN Ok(s, IntV(args[1].i - args[2].i))
                  ELSE Raise(s, "TypeError", SUB)
    [] m = ME -> Ok(s, v)
    [] m = COUNT ->
         Ok(s, IntV(Cardinality({i \in 1..Len(s.items[v.o]) :
                                   s.items[v.o][i] = args[1]})))
    [] OTHER -> Ok(ListAppend(s, v.o, args[1]), NoneV)

\* a slip: the arguments reach the method last first
CallMethodReversed(s, v, mname, args, fresh) ==
  LET rev == [i \in 1..Len(args) |-> args[Len(args) + 1 - i]]
  IN IF mname.t # "str" THEN Raise(s, "TypeError", <<>>)
     ELSE IF mname.s \in MethodsOf(v)
     THEN IF Len(args) # Arity(mname.s) THEN Raise(s, "TypeError", mname.s)
          ELSE Body([s EXCEPT !.calls = Append(@, <<v, mname.s, rev>>)],
                    v, mname.s, rev, fresh)
     ELSE IF GetAttr(s, v, mname.s).exc = ""
     THEN Raise(s, "TypeError", mname.s)
     ELSE Raise(s, "AttributeError", mname.s)

\* method = getattr(obj, method_name); method(*args)
CallMethod(s, v, mname, args, fresh) ==
  IF mname.t # "str" THEN Raise(s, "TypeError", <<>>)
  ELSE IF mname.s \in MethodsOf(v)
  THEN IF Len(args) # Arity(mname.s) THEN Raise(s, "TypeError", mname.s)
       ELSE Body([s EXCEPT !.calls = Append(@, <<v, mname.s, args>>)],
                 v, mname.s, args, fresh)
  ELSE IF GetAttr(s, v, mname.s).exc = ""
  THEN Raise(s, "TypeError", mname.s)
  ELSE Raise(s, "AttributeError", mname.s)

\* inspect.ismethod(getattr(obj, name)): true of a method defined in
\* python, false of a built-in method and of a data attribute
IsMethod(v, n) == n \in PythonMethods(v)

\* the names inspect.getmembers(obj) lists
Members(s, v) ==
  (IF HasAttrs(s, v) THEN DOMAIN s.attrs[v.o] ELSE {}) \cup MethodsOf(v)

\* Broker._get_public_attribute_names
PublicAttributeNames(s, v) ==
  IF IsHasTraits(v)
  THEN {n \in DOMAIN s.attrs[v.o] : n[1] # "_"}
  ELSE {n \in Members(s, v) : n[1] # "_" /\ ~IsMethod(v, n)}

\* Broker._get_public_method_names, on type(obj): the classes before
\* HasTraits in the method resolution order
PublicMethodNames(v) ==
  {n \in PythonMethods(v) \cup BuiltinMethods(v) :
     n[1] # "_" /\ IsMethod(v, n)}

TypeName(v) == IF IsHasTraits(v) THEN <<"M">>
               ELSE IF HasDict(v) THEN <<"P">>
               ELSE IF IsList(v) THEN <<"l">>
               ELSE <<"b">>

\* ------------------------------------------------- the request handlers
\* a slip: get_context returns a new, empty dict
GetContextEmpty(s) == Ok(s, DictV({}))

\* Broker.get_context
GetContext(s) ==
  Ok(s, DictV({<<n, "str", "", s.ctx[n]>> : n \in DOMAIN s.ctx}))

\* a slip: every object with a __dict__ is taken for a HasTraits
GetInstanceInfoAny(s, v) ==
  LET s1 == IF v.t = "ref" /\ v.o \in Instances
            THEN OnTraitChange(s, v.o) ELSE s
      info == {<<"type_name", "str", "", TypeName(v)>>}
              \cup {<<"attribute_names", "str", "", n>> :
                      n \in PublicAttributeNames(s, v)}
              \cup {<<"method_names", "str", "", n>> :
                      n \in PublicMethodNames(v)}
  IN Ok(s1, DictV(info))

\* Broker.get_instance_info
GetInstanceInfo(s, v) ==
  LET s1 == IF IsHasTraits(v) THEN OnTraitChange(s, v.o) ELSE s
      info == {<<"type_name", "str", "", TypeName(v)>>}
              \cup {<<"attribute_names", "str", "", n>> :
                      n \in PublicAttributeNames(s, v)}
              \cup {<<"method_names", "str", "", n>> :
                      n \in PublicMethodNames(v)}
  IN Ok(s1, DictV(info))

\* Broker.get_list_info
GetListInfo(s, v) ==
  LET n == PyLen(s, v)
  IN IF n.exc # "" THEN n
     ELSE Ok(s, DictV({<<"length", "int", "", Str(n.ret.i)>>}))

\* the elements of an iterable, as register_objects walks them
Elements(s, v) == {s.items[v.o][i] : i \in 1..Len(s.items[v.o])}

\* the names getattr(self, request['kind']) finds on a Broker
Table == {"get_context", "call_instance_method", "get_instance_attribute",
          "set_instance_attribute", "get_instance_info", "get_list_info",
          "get_list_item", "set_list_item"}
OtherCallables == {"register_object", "register_objects", "send_event",
                   "_send_object_changed_event", "handle_request"}
NonCallables == {"bridge", "context", "_id_to_object_map"}
BrokerMembers == Table \cup OtherCallables \cup NonCallables

KindArity == [k \in Table \cup OtherCallables |->
  CASE k = "get_context" -> 0
    [] k \in {"get_instance_info", "get_list_info", "register_object",
              "register_objects", "send_event", "handle_request"} -> 1
    [] k \in {"get_instance_attribute", "get_list_item"} -> 2
    [] k \in {"set_instance_attribute", "set_list_item"} -> 3
    [] k = "_send_object_changed_event" -> 4
    [] OTHER -> 2]

\* a Broker.handle_request frame is pushed, popped
Enter(s) == [s EXCEPT !.active = @ + 1,
                      !.depth = IF s.active + 1 > @ THEN s.active + 1 ELSE @]
Leave(s) == [s EXCEPT !.active = @ - 1]

\* the dict Broker.handle_request returns, as a value of the host; the
\* value of a primitive result is not carried
ResponseV(h) ==
  DictV({<<"exception", "repr", h.exception, <<>>>>,
         <<"result", "wire", h.result.type,
           IF h.result.value.t = "str" THEN h.result.value.s ELSE <<>>>>})

RECURSIVE HandleRequest(_, _, _)
\* Broker.handle_request(request) on a value request['kind'] fails on with
\* class cls: KeyError for a dict without the key, TypeError for a value
\* that is no dict
HandleNonRequest(s0, cls) ==
  LET m == Marshal(Enter(s0), ReprV(cls, <<>>))
  IN [s |-> Leave(m.s), status |-> "response", exception |-> cls,
      result |-> m.w]

\* method(*args) for the member the kind names
Invoke(s, kind, a, fresh) ==
  IF kind \in NonCallables THEN Raise(s, "TypeError", <<>>)
  ELSE IF kind = "call_instance_method"
  THEN IF Len(a) < 2 THEN Raise(s, "TypeError", <<>>)
       ELSE CallMethod(s, a[1], a[2], SubSeq(a, 3, Len(a)), fresh)
  ELSE IF Len(a) # KindArity[kind] THEN Raise(s, "TypeError", <<>>)
  ELSE CASE kind = "get_context" -> GetContext(s)
         [] kind = "get_instance_attribute" ->
              IF a[2].t # "str" THEN Raise(s, "TypeError", <<>>)
              ELSE GetAttr(s, a[1], a[2].s)
         [] kind = "set_instance_attribute" ->
              IF a[2].t # "str" THEN Raise(s, "TypeError", <<>>)
              ELSE SetAttr(s, a[1], a[2].s, a[3])
         [] kind = "get_instance_info" -> GetInstanceInfo(s, a[1])
         [] kind = "get_list_info" -> GetListInfo(s, a[1])
         [] kind = "get_list_item" -> GetItem(s, a[1], a[2])
         [] kind = "set_list_item" -> SetItem(s, a[1], a[2], a[3])
         [] kind = "register_object" -> Ok(RegisterObject(s, a[1]), NoneV)
         [] kind = "register_objects" ->
              IF ~IsList(a[1]) THEN Raise(s, "TypeError", <<>>)
              ELSE Ok(RegisterObjects(s, Elements(s, a[1])), NoneV)
         [] kind = "send_event" ->
              IF a[1].t = "ref" THEN Raise(s, "TypeError", <<>>)
              ELSE Ok(SendEvent(s, [kind |-> "raw", obj |-> <<>>,
                                    attribute_name |-> <<>>,
                                    new_obj |-> Wire("primitive", a[1])]),
                      NoneV)
         [] kind = "_send_object_changed_event" ->
              IF a[2].t # "str" THEN Raise(s, "TypeError", <<>>)
              ELSE SendObjectChangedEvent(s, a[1], a[2].s, a[4])
         [] kind = "handle_request" ->
              LET h == IF a[1].t = "req"
                       THEN HandleRequest(s, [kind |-> a[1].o, args |-> <<>>],
                                          fresh)
                       ELSE HandleNonRequest(s, "TypeError")
              IN IF h.status = "raised" THEN Raise(h.s, h.exception, <<>>)
                 ELSE Ok(h.s, ResponseV(h))

\* a slip: the handler catches the lookup failures only
IsLookupError(cls) == cls \in {"AttributeError", "KeyError", "IndexError"}

\* the classes 'except Exception' catches
IsException(cls) ==
  cls \in {"AttributeError", "KeyError", "TypeError", "IndexError",
           "ValueError", "TraitError"}

\* Broker.handle_request: status is "response" when it returns the dict and
\* "raised" when the exception leaves handle_request
HandleRequest(s0, r, fresh) ==
  LET s == Enter(s0)
      u == UnmarshalAll(s.reg, r.args)
      out == IF r.kind \notin BrokerMembers
             THEN Raise(s, "AttributeError", <<>>)
             ELSE IF ~u.ok THEN Raise(s, "KeyError", u.key)
             ELSE Invoke(s, r.kind, u.vals, fresh)
  IN IF out.exc = ""
     THEN LET m == Marshal(out.s, out.ret)
          IN [s |-> Leave(m.s), status |-> "response", exception |-> "",
              result |-> m.w]
     ELSE IF IsException(out.exc)
     THEN LET m == Marshal(out.s, ReprV(out.exc, out.msg))
          IN [s |-> Leave(m.s), status |-> "response",
              exception |-> out.exc, result |-> m.w]
     ELSE [s |-> Leave(out.s), status |-> "raised", exception |-> out.exc,
           result |-> Wire("primitive", NoneV)]

\* --------------------------------------------------- reference counting
\* the objects a value or a container refers to
RefsOf(s, o) ==
  (IF o \in DOMAIN s.attrs
   THEN {s.attrs[o][n].o : n \in {m \in DOMAIN s.attrs[o] :
                                    s.attrs[o][m].t = "ref"}}
   ELSE {})
  \cup
  (IF o \in Lists
   THEN {s.items[o][i].o : i \in {j \in 1..Len(s.items[o]) :
                                    s.items[o][j].t = "ref"}}
   ELSE {})

RECURSIVE Reach(_, _)
Reach(s, live) ==
  LET more == live \cup UNION {RefsOf(s, o) : o \in live}
  IN IF more = live THEN live ELSE Reach(s, more)

\* what the host application and the registry keep alive: the registry dict
\* holds a strong reference to every object it maps
Roots(s) == {"A", "P"}
            \cup {s.reg[k].o : k \in {j \in DOMAIN s.reg : s.reg[j].t = "ref"}}

\* an unreferenced temporary is freed at once and its block can be reused
Collect(s) ==
  LET live == Reach(s, Roots(s))
  IN [s EXCEPT !.addr = [o \in Objs |-> IF o \in live THEN s.addr[o] ELSE 0],
               !.items = [o \in Lists |->
                            IF o \in live THEN s.items[o] ELSE <<>>],
               !.attrs = [o \in DOMAIN s.attrs |->
                            IF o \in live \/ o \notin TraitLists
                            THEN s.attrs[o] ELSE TraitListDict]]

\* ------------------------------------------------------------ the inputs
\* the contexts the application shows
Contexts == {("model" :> "A"), ("model" :> "P")}

Ints == {IntV(n) : n \in 0..MaxInt}
\* what the host and the remote side put into lists
Elems == {IntV(0), IntV(1)}
FreeTemps == {t \in Temps : addr[t] = 0}

\* an id no object has
FakeId == StrV(Str(99))
Fake == Wire("instance", FakeId)
TagOf(v) == IF IsList(v) THEN "list" ELSE "instance"
WireOf(k) == Wire(TagOf(reg[k]), StrV(k))
RegWires == {WireOf(k) : k \in DOMAIN reg}
\* the wires of the registered objects of a set of objects
WiresOf(os) == {WireOf(k) : k \in {j \in DOMAIN reg : reg[j].o \in os}}
ObjWires == RegWires \cup {Fake}
PrimW(v) == Wire("primitive", v)
IntWires == {PrimW(v) : v \in Ints}
ElemWires == {PrimW(v) : v \in Elems}
ValWires == IntWires \cup WiresOf(Temps) \cup {Fake}
NameW(cs) == PrimW(StrV(cs))

Req(kind, args) == [kind |-> kind, args |-> args]

\* the indices the remote side reads and writes lists at
Indices == {PrimW(IntV(0)), PrimW(IntV(MaxLen)), PrimW(IntV(-1)), Fake}

\* the requests the remote side sends.  Attributes are written under their
\* declared names, list elements are ints, and only A.items is appended to.
Requests ==
  {Req("get_context", a) : a \in {<<>>, <<Fake>>, <<NameW(X)>>}}
  \cup {Req(k, <<o>>) : k \in {"get_instance_info", "get_list_info"},
                        o \in ObjWires \cup {PrimW(IntV(0))}}
  \cup {Req("get_instance_attribute", <<o, NameW(n)>>) :
          o \in ObjWires, n \in {X, ITEMS, NOSUCH}}
  \cup {Req("set_instance_attribute", <<o, NameW(X), v>>) :
          o \in WiresOf({"A"}) \cup {Fake}, v \in ValWires}
  \cup {Req("set_instance_attribute", <<o, NameW(X), Fake>>) :
          o \in WiresOf({"LA"})}
  \cup {Req("set_instance_attribute", <<o, NameW(ITEMS), v>>) :
          o \in WiresOf({"A"}), v \in {PrimW(IntV(0)), Fake}}
  \cup {Req("call_instance_method", <<o, NameW(m)>>) :
          o \in WiresOf({"A"}) \cup {Fake},
          m \in {FAIL, QUIT, NEWLIST, ME, SETX, X, NOSUCH}}
  \cup {Req("call_instance_method", <<o, NameW(FAIL)>>) :
          o \in WiresOf({"P", "LA"})}
  \cup {Req("call_instance_method", <<o, NameW(SETX), v>>) :
          o \in WiresOf({"A"}) \cup {Fake}, v \in ValWires}
  \cup {Req("call_instance_method", <<o, NameW(BLINK), v>>) :
          o \in WiresOf({"A"}), v \in IntWires}
  \cup {Req("call_instance_method", <<o, NameW(SUB), p[1], p[2]>>) :
          o \in WiresOf({"A"}),
          p \in {q \in IntWires \X IntWires : q[1] # q[2]}}
  \cup {Req("call_instance_method", <<o, NameW(APPEND), v>>) :
          o \in WiresOf({"LA"}) \cup {Fake}, v \in {PrimW(IntV(1)), Fake}}
  \cup {Req("get_list_item", <<o, i>>) :
          o \in WiresOf(Lists \cup {"A"}) \cup {Fake}, i \in Indices}
  \cup {Req("set_list_item", <<o, i, v>>) :
          o \in WiresOf(Lists \cup {"A"}) \cup {Fake}, i \in Indices,
          v \in ElemWires \cup {Fake}}
  \cup {Req("register_object", <<v>>) : v \in ObjWires}
  \cup {Req("register_objects", <<v>>) :
          v \in WiresOf(Temps \cup {"A"}) \cup {Fake}}
  \cup {Req("send_event", <<v>>) :
          v \in WiresOf({"A"}) \cup {PrimW(IntV(0)), Fake}}
  \cup {Req("_send_object_changed_event",
            <<o, NameW(X), PrimW(IntV(0)), v>>) :
          o \in WiresOf({"A"}) \cup {PrimW(IntV(0)), Fake},
          v \in {PrimW(IntV(1)), Fake}}
  \cup {Req(k, a) : k \in {"bridge", "handle_event"},
                    a \in {<<>>, <<PrimW(IntV(0))>>, <<Fake>>}}
  \cup {Req("handle_request", <<v>>) :
          v \in {PrimW(ReqV("get_context")), PrimW(ReqV("handle_event")),
                 PrimW(IntV(0))}}

\* the requests of a remote side that assigns lists to the attributes of A
ItemsRequests ==
  {Req("get_instance_info", <<o>>) : o \in WiresOf({"A"})}
  \cup {Req("call_instance_method", <<o, NameW(NEWLIST)>>) :
          o \in WiresOf({"A"})}
  \cup {Req("call_instance_method", <<o, NameW(APPEND), PrimW(IntV(1))>>) :
          o \in WiresOf(Lists)}
  \cup {Req("set_instance_attribute", <<o, NameW(n), v>>) :
          o \in WiresOf({"A"}), n \in {X, ITEMS},
          v \in WiresOf(Lists \cup Instances) \cup IntWires}
  \cup {Req("get_instance_attribute", <<o, NameW(n)>>) :
          o \in WiresOf({"A"}), n \in {X, ITEMS}}

\* the texts a remote side that does not use the client library may send
MessageTexts == {<<>>, <<"{">>, <<"{", "}">>, <<"0">>}

\* a slip: a text that does not parse is taken for null
JsonLoadsLenient(text) ==
  IF text = <<"{", "}">> THEN [ok |-> TRUE, v |-> DictV({})]
  ELSE [ok |-> TRUE, v |-> NoneV]

\* json.loads(text): ok is FALSE when it raises ValueError
JsonLoads(text) ==
  IF text = <<"{", "}">> THEN [ok |-> TRUE, v |-> DictV({})]
  ELSE IF Len(text) = 1 /\ text[1] \in {Digits[i] : i \in 1..10}
  THEN [ok |-> TRUE,
        v |-> IntV((CHOOSE i \in 1..10 : Digits[i] = text[1]) - 1)]
  ELSE [ok |-> FALSE, v |-> NoneV]

\* --------------------------------------------------------------- actions
NoReq == Req("", <<>>)
NoResp == [status |-> "none", exception |-> "",
           result |-> PrimW(NoneV)]
Op(op, o, name, old, new, ok, again) ==
  [op |-> op, o |-> o, name |-> name, old |-> old, new |-> new,
   ok |-> ok, again |-> again]
IdleOp == Op("idle", "", <<>>, NoneV, NoneV, TRUE, FALSE)

\* the host's main thread is between two operations: the last response and
\* the last events have been handed to the remote side
Idle == last.op = "idle"

\* the state an operation leaves, once unreferenced temporaries are freed
Commit(s0) ==
  \E s \in {Collect(s0)} :
     /\ attrs' = s.attrs
     /\ items' = s.items
     /\ addr' = s.addr
     /\ reg' = s.reg
     /\ notifiers' = s.notifiers
     /\ ctx' = s.ctx
     /\ issued' = s.issued
     /\ pushed' = s.pushed
     /\ calls' = s.calls
     /\ depth' = s.depth

Registered(r, o) == \E k \in DOMAIN r : r[k] = RefV(o)

\* ------------------------------------------------- core/wsgi.py: guess_type
\* the threads of the server that call the FileLoader
Threads == {"t1", "t2"}
NoThread == "none"

\* os.path.sep
Sep == "/"
JS == <<".", "j", "s">>
JAVASCRIPT == <<"j", "s">>

RECURSIVE LStrip(_, _)
\* str.lstrip(c)
LStrip(cs, c) ==
  IF cs # <<>> /\ Head(cs) = c THEN LStrip(Tail(cs), c) ELSE cs

RECURSIVE RStrip(_, _)
\* str.rstrip(c)
RStrip(cs, c) ==
  IF cs # <<>> /\ cs[Len(cs)] = c
  THEN RStrip(SubSeq(cs, 1, Len(cs) - 1), c) ELSE cs

\* str.strip(c)
Strip(cs, c) == RStrip(LStrip(cs, c), c)

\* str.replace(a, b), for single characters
Replace(cs, a, b) == [k \in 1..Len(cs) |-> IF cs[k] = a THEN b ELSE cs[k]]

\* os.path.join(root, path) for a relative path
Join(root, path) == root \o <<Sep>> \o path

EndsWith(cs, suffix) ==
  /\ Len(cs) >= Len(suffix)
  /\ SubSeq(cs, Len(cs) - Len(suffix) + 1, Len(cs)) = suffix

\* mimetypes.guess_type(content): (type, encoding); both None for a name
\* whose extension is in no table
MimetypesGuessType(content) ==
  <<IF EndsWith(content, JS) THEN StrV(JAVASCRIPT) ELSE NoneV, NoneV>>

\* guess_type, once the tables are initialized (lines 28-33)
Guessed(content) ==
  LET guessed == MimetypesGuessType(content)
  IN IF guessed[2] = NoneV THEN <<guessed[1], StrV(<<>>)>> ELSE guessed

\* the test of line 25, made with mimeLock held
LockedCheckSkipped(initialized) == TRUE

LockedCheck(initialized) == ~initialized

\* ------------------------------------------------- core/wsgi.py: FileLoader
\* FileLoader.root
Root == <<"r">>

\* FileLoader.overrides: cleaned path -> canned response, or None
Overrides ==
  (<<"a", ".", "j", "s">> :> StrV(<<"c", "1">>)) @@
  (<<"a">> :> StrV(<<"c", "2">>)) @@
  (<<"n", ".", "j", "s">> :> NoneV)

\* the files on disk: path -> content
Files ==
  (Join(Root, <<"a", ".", "j", "s">>) :> StrV(<<"f", "1">>)) @@
  (Join(Root, <<"b", ".", "j", "s">>) :> StrV(<<"f", "2">>)) @@
  (Join(Root, <<"b">>) :> StrV(<<"f", "3">>))

\* the directories on disk
Dirs == {Join(Root, <<>>)}

\* os.path.exists
Exists(path) == path \in DOMAIN Files \cup Dirs

\* env['PATH_INFO'] of the requests served
PathInfos ==
  { <<"/", "a", ".", "j", "s">>, <<"/", "a">>, <<"/", "n", ".", "j", "s">>,
    <<"/", "b", ".", "j", "s", "/">>, <<"/", "b">>, <<"/", "c", ".", "j", "s">>,
    <<"/">> }

\* line 50
CleanPath(info) == Replace(Strip(info, "/"), "/", Sep)

\* dict.get(path)
OverrideGet(path) == IF path \in DOMAIN Overrides THEN Overrides[path] ELSE NoneV

\* '; '.join(guessed): TypeError unless every item is a str
JoinOk(guessed) == \A k \in 1..Len(guessed) : guessed[k].t = "str"

\* a thread outside FileLoader.__call__
NoFrame == [pc |-> "idle", env |-> <<>>, path |-> <<>>, canned |-> FALSE,
            started |-> <<>>, body |-> <<>>, exc |-> "", early |-> FALSE]

InitWsgi ==
  /\ mimeInitialized = FALSE
  /\ mimeLock = NoThread
  /\ initCalls = 0
  /\ initDone = 0
  /\ thr = [t \in Threads |-> NoFrame]

\* --------------------------------------- jigna_view.py: Broker.bridge trait
Brokers == {"b1", "b2", "b3"}
Bridges == {"x", "y", "z"}
None == "None"

\* Broker._bridge_changed(trait_name, old, new) of broker b, on the brokers
\* the bridges hold
BridgeChanged(bk, b, old, new) ==
  LET cleared == IF old # None THEN [bk EXCEPT ![old] = None] ELSE bk
  IN IF new # None THEN [cleared EXCEPT ![new] = b] ELSE cleared

InitLinks ==
  /\ bridge = [b \in Brokers |-> None]
  /\ broker = [x \in Bridges |-> None]

\* ------------------------------- core/web_view_container.py: WebViewContainer
\* the bound on the controls one container creates
MaxControls == 3
\* zoom factors: 1 stands for 1.0, the factor of a new control
DefaultZoom == 1
MaxZoom == 3
Zooms == 1..MaxZoom

\* the container's fields, threaded through the operators below
W == [control |-> control, controls |-> controls, zoomAttr |-> zoomAttr]

\* WebViewContainer._get_zoom
GetZoom(w) ==
  IF w.control # 0 THEN w.controls[w.control] ELSE DefaultZoom

\* WebViewContainer._set_zoom
SetZoom(w, zoom) ==
  IF w.control # 0 THEN [w EXCEPT !.controls[w.control] = zoom]
  ELSE [w EXCEPT !.zoomAttr = zoom]

\* WebViewContainer.create: _create_control builds the control and, if there
\* is a _zoom attribute, assigns it to the zoom property and deletes it; only
\* then is the new control stored in self.control
CreateControl(w) ==
  LET made == [w EXCEPT !.controls = Append(@, DefaultZoom)]
      zoomed == IF made.zoomAttr # 0
                THEN [SetZoom(made, made.zoomAttr) EXCEPT !.zoomAttr = 0]
                ELSE made
  IN [zoomed EXCEPT !.control = Len(zoomed.controls)]

\* a call on the container: the _zoom attribute when it was made, the
\* exception it raised and the value it returned
WOp(op, raised, value) ==
  [op |-> op, pending |-> zoomAttr, raised |-> raised, value |-> value]

InitWidget ==
  /\ control = 0
  /\ controls = <<>>
  /\ zoomAttr = 0
  /\ wlast = [op |-> "", pending |-> 0, raised |-> "", value |-> 0]

\* ------------------------------------------ jigna_view.py: JignaView._load_html
\* the bound on the loads one view starts
MaxLoads == 5

\* line 427, left out
ResetFlagSkipped(flag) == flag

\* line 427: self._load_finished = False
ResetFlag(flag) == FALSE

InitLoad ==
  /\ loadFinished = FALSE
  /\ loads = 0
  /\ finished = 0
  /\ connections = 0
  /\ showPc = "idle"

Init ==
  /\ InitWsgi
  /\ InitLinks
  /\ InitWidget
  /\ InitLoad
  /\ attrs = [o \in Instances \cup TraitLists |->
                IF o = "A" THEN (X :> IntV(0)) @@ (ITEMS :> RefV("LA"))
                ELSE IF o = "P" THEN (X :> IntV(0))
                ELSE TraitListDict]
  /\ items = [o \in Lists |-> <<>>]
  /\ addr = [o \in Objs |-> IF o \in DOMAIN RootAddr THEN RootAddr[o] ELSE 0]
  /\ reg = <<>>
  /\ notifiers = [o \in Objs |-> 0]
  /\ ctx = <<>>
  /\ created = FALSE
  /\ shown = <<>>
  /\ issued = [o \in Objs |-> {}]
  /\ pushed = <<>>
  /\ req = NoReq
  /\ resp = NoResp
  /\ infoCalls = 0
  /\ calls = <<>>
  /\ depth = 0
  /\ last = IdleOp

\* JignaView.show(**c): _resolve_context_ids, then the broker (built on first
\* use around the view's _context dict) registers the context's objects
ResolveAndRegister(c) ==
  /\ Idle
  /\ LET ids == [n \in DOMAIN c |-> Str(addr[c[n]])]
         s1 == [St EXCEPT !.ctx = IF created THEN ctx ELSE ids]
     IN Commit(RegisterObjects(s1, {RefV(c[n]) : n \in DOMAIN c}))
  /\ created' = TRUE
  /\ shown' = IF created THEN shown ELSE c
  /\ req' = NoReq
  /\ resp' = NoResp
  /\ UNCHANGED infoCalls
  /\ last' = Op("show", c["model"], <<>>, NoneV, NoneV, TRUE,
                \E n \in DOMAIN c : Registered(reg, c[n]))

\* JignaView.show(**c), the wait for the page (ShowBegin, ShowEnd) left aside
Show(c) ==
  /\ ResolveAndRegister(c)
  /\ UNCHANGED ancillary

\* the application assigns A.x = v
HostSetAttr(o, v) ==
  /\ Idle
  /\ v.t = "ref" => addr[v.o] # 0
  /\ Commit(SetAttr(St, RefV(o), X, v).s)
  /\ UNCHANGED <<created, shown, infoCalls>>
  /\ UNCHANGED ancillary
  /\ req' = NoReq
  /\ resp' = NoResp
  /\ last' = Op("setattr", o, X, attrs[o][X], v, TRUE, FALSE)

\* the application assigns A.x = [], a new list
HostSetNewList(o, fresh) ==
  /\ Idle
  /\ fresh \in FreeTemps
  /\ FreeAddrs(St) # {}
  /\ Commit(SetAttr(Alloc(St, fresh), RefV(o), X, RefV(fresh)).s)
  /\ UNCHANGED <<created, shown, infoCalls>>
  /\ UNCHANGED ancillary
  /\ req' = NoReq
  /\ resp' = NoResp
  /\ last' = Op("setattr", o, X, attrs[o][X], RefV(fresh), TRUE, FALSE)

\* the application appends to A.items
HostAppend(v) ==
  /\ Idle
  /\ Len(items[attrs["A"][ITEMS].o]) < MaxLen
  /\ Commit(ListAppend(St, attrs["A"][ITEMS].o, v))
  /\ UNCHANGED <<created, shown, infoCalls>>
  /\ UNCHANGED ancillary
  /\ req' = NoReq
  /\ resp' = NoResp
  /\ last' = Op("append", "A", ITEMS, NoneV, v, TRUE, FALSE)

\* r asks for list.append
IsAppend(r) ==
  IF r.kind = "call_instance_method" /\ Len(r.args) = 3
  THEN r.args[2] = NameW(APPEND) ELSE FALSE

\* the list r appends to is shorter than the longest list of the model
AppendRoom(r) ==
  LET u == Unmarshal(reg, r.args[1])
  IN (u.ok /\ IsList(u.v)) => Len(items[u.v.o]) < MaxLen

\* r assigns a list to A.items, for which traits makes a TraitListObject
NeedsWrap(r) ==
  IF r.kind = "set_instance_attribute" /\ Len(r.args) = 3
  THEN /\ r.args[2] = NameW(ITEMS)
       /\ Unmarshal(reg, r.args[1]) = [ok |-> TRUE, v |-> RefV("A")]
       /\ Unmarshal(reg, r.args[3]).ok
       /\ IsList(Unmarshal(reg, r.args[3]).v)
  ELSE FALSE

\* r asks for the method that makes a new list
NeedsAlloc(r) ==
  IF r.kind = "call_instance_method" /\ Len(r.args) >= 2
  THEN r.args[2] = NameW(NEWLIST) ELSE FALSE

\* r is get_instance_info on o
InfoOn(r, o) ==
  IF r.kind = "get_instance_info" /\ Len(r.args) = 1
  THEN Unmarshal(reg, r.args[1]) = [ok |-> TRUE, v |-> RefV(o)] ELSE FALSE

Min(a, b) == IF a < b THEN a ELSE b

\* the remote side sends r: Broker.handle_request(r)
Request(r) ==
  /\ Idle
  /\ created
  /\ IsAppend(r) => AppendRoom(r)
  /\ NeedsAlloc(r) => FreeTemps # {} /\ FreeAddrs(St) # {}
  /\ NeedsWrap(r) => FreeTraitLists(St) # {}
  /\ \E fresh \in IF NeedsAlloc(r) THEN FreeTemps ELSE {"T1"} :
       \E h \in {HandleRequest(St, r, fresh)} :
          /\ Commit(h.s)
          /\ resp' = [status |-> h.status, exception |-> h.exception,
                      result |-> h.result]
  /\ UNCHANGED <<created, shown>>
  /\ UNCHANGED ancillary
  /\ req' = r
  /\ infoCalls' = IF InfoOn(r, "A") THEN Min(infoCalls + 1, 2) ELSE infoCalls
  /\ last' = Op("request", "", <<>>, NoneV, NoneV, TRUE, FALSE)

\* _unmarshal(_marshal(v)) on a value of the host
RoundTrip(v) ==
  /\ Idle
  /\ created
  /\ v.t = "ref" => addr[v.o] # 0
  /\ \E m \in {Marshal(St, v)} :
       \E u \in {Unmarshal(m.s.reg, m.w)} :
          /\ Commit(m.s)
          /\ last' = Op("roundtrip", m.w.type,
                        IF m.w.type = "primitive" THEN <<>>
                        ELSE m.w.value.s,
                        v, u.v, u.ok, v.t = "ref" /\ Registered(reg, v.o))
  /\ UNCHANGED <<created, shown, infoCalls>>
  /\ UNCHANGED ancillary
  /\ req' = NoReq
  /\ resp' = NoResp

\* Bridge.handle_request(text) on a text that is no serialised request
Message(text) ==
  /\ Idle
  /\ created
  /\ \E j \in {JsonLoads(text)} :
       IF ~j.ok
       THEN /\ Commit(St)
            /\ resp' = [status |-> "raised", exception |-> "ValueError",
                        result |-> PrimW(NoneV)]
       ELSE \E h \in {HandleNonRequest(St, IF j.v.t = "dict" THEN "KeyError"
                                            ELSE "TypeError")} :
               /\ Commit(h.s)
               /\ resp' = [status |-> h.status, exception |-> h.exception,
                           result |-> h.result]
  /\ UNCHANGED <<created, shown, infoCalls>>
  /\ UNCHANGED ancillary
  /\ req' = NoReq
  /\ last' = Op("message", "", text, NoneV, NoneV, JsonLoads(text).ok, FALSE)

\* the response and the events of the last operation reach the remote side
ReturnToLoop ==
  /\ ~Idle
  /\ last' = IdleOp
  /\ req' = NoReq
  /\ resp' = NoResp
  /\ pushed' = <<>>
  /\ calls' = <<>>
  /\ depth' = 0
  /\ UNCHANGED <<attrs, items, addr, reg, notifiers, ctx, created, shown,
                 issued, infoCalls>>

Deliver ==
  /\ ReturnToLoop
  /\ UNCHANGED ancillary

HostValues == Ints \cup {RefV(o) : o \in Temps}
Values == Ints \cup {RefV(o) : o \in Objs} \cup {NoneV, StrV(X)}

Next ==
  \/ \E c \in Contexts : Show(c)
  \/ \E v \in HostValues : HostSetAttr("A", v)
  \/ \E t \in Temps : HostSetNewList("A", t)
  \/ HostAppend(IntV(1))
  \/ \E r \in Requests : Request(r)
  \/ \E v \in Values : RoundTrip(v)
  \/ \E text \in MessageTexts : Message(text)
  \/ Deliver

Spec == Init /\ [][Next]_vars

\* the view shows A, and the remote side assigns lists to its attributes
NextItems ==
  \/ Show(("model" :> "A"))
  \/ HostAppend(IntV(1))
  \/ \E r \in ItemsRequests : Request(r)
  \/ Deliver

SpecItems == Init /\ [][NextItems]_vars

\* ---------------------------------------------- the server's threads (wsgi)
At(t, pc) == thr[t].pc = pc
Goto(t, pc) == thr' = [thr EXCEPT ![t].pc = pc]

\* FileLoader.__call__(env, start_response), up to the call of guess_type or
\* to the 404 answer (lines 50-64)
Call(t, info) ==
  /\ At(t, "idle")
  /\ LET path == CleanPath(info)
         f == [NoFrame EXCEPT !.env = info]
     IN thr' = [thr EXCEPT ![t] =
          IF OverrideGet(path) # NoneV
          THEN [f EXCEPT !.pc = "23", !.path = path, !.canned = TRUE]
          ELSE IF ~Exists(Join(Root, path))
          THEN [f EXCEPT !.pc = "done", !.path = Join(Root, path),
                         !.started = <<"404 File not found">>]
          ELSE [f EXCEPT !.pc = "23", !.path = Join(Root, path)]]
  /\ UNCHANGED <<mimeInitialized, mimeLock, initCalls, initDone>>
  /\ UNCHANGED <<core, links, widget, load>>

\* guess_type, line 23: the test made without the lock
CheckInitialized(t) ==
  /\ At(t, "23")
  /\ Goto(t, IF ~mimeInitialized THEN "24" ELSE "28")
  /\ UNCHANGED <<mimeInitialized, mimeLock, initCalls, initDone>>
  /\ UNCHANGED <<core, links, widget, load>>

\* line 24: with mimeLock
AcquireLock(t) ==
  /\ At(t, "24")
  /\ mimeLock = NoThread
  /\ mimeLock' = t
  /\ Goto(t, "25")
  /\ UNCHANGED <<mimeInitialized, initCalls, initDone>>
  /\ UNCHANGED <<core, links, widget, load>>

\* line 25
CheckAgain(t) ==
  /\ At(t, "25")
  /\ Goto(t, IF LockedCheck(mimeInitialized) THEN "26" ELSE "exit")
  /\ UNCHANGED <<mimeInitialized, mimeLock, initCalls, initDone>>
  /\ UNCHANGED <<core, links, widget, load>>

\* line 26: mimetypes.init() is entered
InitBegin(t) ==
  /\ At(t, "26")
  /\ initCalls' = initCalls + 1
  /\ Goto(t, "init")
  /\ UNCHANGED <<mimeInitialized, mimeLock, initDone>>
  /\ UNCHANGED <<core, links, widget, load>>

\* line 26: mimetypes.init() returns
InitEnd(t) ==
  /\ At(t, "init")
  /\ initDone' = initDone + 1
  /\ Goto(t, "27")
  /\ UNCHANGED <<mimeInitialized, mimeLock, initCalls>>
  /\ UNCHANGED <<core, links, widget, load>>

\* line 27
SetInitialized(t) ==
  /\ At(t, "27")
  /\ mimeInitialized' = TRUE
  /\ Goto(t, "exit")
  /\ UNCHANGED <<mimeLock, initCalls, initDone>>
  /\ UNCHANGED <<core, links, widget, load>>

\* the end of the with block of line 24
ReleaseLock(t) ==
  /\ At(t, "exit")
  /\ mimeLock' = NoThread
  /\ Goto(t, "28")
  /\ UNCHANGED <<mimeInitialized, initCalls, initDone>>
  /\ UNCHANGED <<core, links, widget, load>>

\* guess_type from line 28 and the rest of FileLoader.__call__ (lines 54-57,
\* 67-72): the header is built before start_response is called
Respond(t) ==
  /\ At(t, "28")
  /\ LET f == thr[t]
         guessed == Guessed(f.path)
         early == initDone = 0
     IN thr' = [thr EXCEPT ![t] =
          IF ~JoinOk(guessed)
          THEN [f EXCEPT !.pc = "done", !.exc = "TypeError", !.early = early]
          ELSE IF f.canned
          THEN [f EXCEPT !.pc = "done", !.started = <<"200 OK">>,
                         !.body = <<Overrides[f.path]>>, !.early = early]
          ELSE IF f.path \in DOMAIN Files
          THEN [f EXCEPT !.pc = "done", !.started = <<"200 OK">>,
                         !.body = <<Files[f.path]>>, !.early = early]
          ELSE [f EXCEPT !.pc = "done", !.started = <<"200 OK">>,
                         !.exc = "IOError", !.early = early]]
  /\ UNCHANGED <<mimeInitialized, mimeLock, initCalls, initDone>>
  /\ UNCHANGED <<core, links, widget, load>>

\* the server has sent the answer; the thread is free for the next request
Return(t) ==
  /\ At(t, "done")
  /\ thr' = [thr EXCEPT ![t] = NoFrame]
  /\ UNCHANGED <<mimeInitialized, mimeLock, initCalls, initDone>>
  /\ UNCHANGED <<core, links, widget, load>>

NextWsgi ==
  \/ \E t \in Threads, info \in PathInfos : Call(t, info)
  \/ \E t \in Threads : CheckInitialized(t)
  \/ \E t \in Threads : AcquireLock(t)
  \/ \E t \in Threads : CheckAgain(t)
  \/ \E t \in Threads : InitBegin(t)
  \/ \E t \in Threads : InitEnd(t)
  \/ \E t \in Threads : SetInitialized(t)
  \/ \E t \in Threads : ReleaseLock(t)
  \/ \E t \in Threads : Respond(t)
  \/ \E t \in Threads : Return(t)

SpecWsgi == Init /\ [][NextWsgi]_vars

\* ------------------------------------------------ brokers and their bridges
\* b.bridge = new; traits calls _bridge_changed when the value changes
SetBridge(b, new) ==
  /\ bridge' = [bridge EXCEPT ![b] = new]
  /\ broker' = IF new = bridge[b] THEN broker
               ELSE BridgeChanged(broker, b, bridge[b], new)
  /\ UNCHANGED <<core, wsgi, widget, load>>

NextLinks == \E b \in Brokers, new \in Bridges \cup {None} : SetBridge(b, new)

SpecLinks == Init /\ [][NextLinks]_vars

\* --------------------------------------------------- the web view container
SetW(w) ==
  /\ control' = w.control
  /\ controls' = w.controls
  /\ zoomAttr' = w.zoomAttr

\* container.zoom = z
AssignZoom(z) ==
  /\ SetW(SetZoom(W, z))
  /\ wlast' = WOp("set_zoom", "", z)
  /\ UNCHANGED <<core, wsgi, links, load>>

\* container.zoom is read
ReadZoom ==
  /\ SetW(W)
  /\ wlast' = WOp("get_zoom", "", GetZoom(W))
  /\ UNCHANGED <<core, wsgi, links, load>>

\* container.create()
Create ==
  /\ Len(controls) < MaxControls
  /\ SetW(CreateControl(W))
  /\ wlast' = WOp("create", "", GetZoom(CreateControl(W)))
  /\ UNCHANGED <<core, wsgi, links, load>>

\* container.destroy(): self.control.stop() comes first (line 245), the test
\* of self.control after it (line 250)
Destroy ==
  /\ IF control = 0
     THEN /\ SetW(W)
          /\ wlast' = WOp("destroy", "AttributeError", 0)
     ELSE /\ SetW([W EXCEPT !.control = 0])
          /\ wlast' = WOp("destroy", "", 0)
  /\ UNCHANGED <<core, wsgi, links, load>>

NextWidget ==
  \/ \E z \in Zooms : AssignZoom(z)
  \/ ReadZoom
  \/ Create
  \/ Destroy

SpecWidget == Init /\ [][NextWidget]_vars

\* ------------------------------------------------- the view loads its page
\* JignaView.show(**c) up to the wait of _load_html: the objects are
\* registered, loadFinished is connected once more, the flag is reset and the
\* widget starts loading the document (lines 364-367, 427-429)
ShowBegin(c) ==
  /\ showPc = "idle"
  /\ loads < MaxLoads
  /\ ResolveAndRegister(c)
  /\ connections' = connections + 1
  /\ loadFinished' = ResetFlag(loadFinished)
  /\ loads' = loads + 1
  /\ showPc' = "waiting"
  /\ UNCHANGED <<wsgi, links, widget, finished>>

\* the page emits loadFinished for the load in progress, inside
\* GUI.process_events() or the application's event loop: every connection
\* calls _on_load_finished (lines 436-441)
LoadFinishedSignal ==
  /\ finished < loads
  /\ connections > 0
  /\ finished' = loads
  /\ loadFinished' = TRUE
  /\ UNCHANGED <<core, wsgi, links, widget, loads, connections, showPc>>

\* the loop of lines 431-432 ends, _load_html returns and show() shows the
\* control (line 368)
ShowEnd ==
  /\ showPc = "waiting"
  /\ loadFinished
  /\ showPc' = "idle"
  /\ ReturnToLoop
  /\ UNCHANGED <<wsgi, links, widget, loadFinished, loads, finished,
                 connections>>

\* the keyword arguments of the show() calls
LoadContexts == Contexts \cup {("model" :> "A") @@ ("other" :> "P")}

NextLoad ==
  \/ \E c \in LoadContexts : ShowBegin(c)
  \/ LoadFinishedSignal
  \/ ShowEnd

\* Qt delivers the signal of a load in progress, and the loop of _load_html
\* goes on while the main thread runs
SpecLoad ==
  /\ Init
  /\ [][NextLoad]_vars
  /\ WF_vars(LoadFinishedSignal)
  /\ WF_vars(ShowEnd)

\* ================================================================ claims
IsRequest == last.op = "request"

\* some argument is tagged instance or list with an id the registry r lacks
HasUnknownId(r, args) ==
  \E i \in 1..Len(args) :
     /\ args[i].type # "primitive"
     /\ ~(args[i].value.t = "str" /\ args[i].value.s \in DOMAIN r)

\* w names object o in registry r
Names(r, w, o) ==
  /\ w.type # "primitive"
  /\ w.value.t = "str"
  /\ w.value.s \in DOMAIN r
  /\ r[w.value.s] = RefV(o)

\* the host-side state apart from the registry
HostSame == /\ attrs' = attrs
            /\ items' = items
            /\ addr' = addr
            /\ notifiers' = notifiers
            /\ pushed' = <<>>

\* r calls blink, the method that assigns A.x twice
IsBlink(r) ==
  IF r.kind = "call_instance_method" /\ Len(r.args) = 3
  THEN r.args[2] = NameW(BLINK) ELSE FALSE

\* C1: a request whose kind is outside the fixed table of eight kinds gets a
\* Response with a non-null exception and changes nothing on the host:
\* registry, subscriptions, objects and pushed events stay as they were.
C1_UnknownKindRejected ==
  [][(last'.op = "request" /\ req'.kind \notin Table)
       => /\ resp'.status = "response"
          /\ resp'.exception # ""
          /\ reg' = reg
          /\ HostSame]_vars

XDiffers ==
  IF IsList(attrs["A"][X]) /\ IsList(attrs'["A"][X])
  THEN items[attrs["A"][X].o] # items'[attrs'["A"][X].o]
  ELSE attrs'["A"][X] # attrs["A"][X]

\* C3: once get_instance_info(A) has been handled, however often, every step
\* that changes A.x to a different value pushes exactly one Event, of kind
\* object_changed, with obj = id(A), attribute_name = "x" and a new_obj that
\* decodes to the new value.
C3_OneEventPerMutation ==
  [][(infoCalls >= 1 /\ XDiffers /\ ~(last'.op = "request" /\ IsBlink(req')))
       => /\ Len(pushed') = 1
          /\ pushed'[1].kind = "object_changed"
          /\ pushed'[1].obj = Str(addr'["A"])
          /\ pushed'[1].attribute_name = X
          /\ (pushed'[1].new_obj.type = "primitive"
                => pushed'[1].new_obj.value = attrs'["A"][X])
          /\ (pushed'[1].new_obj.type # "primitive"
                => /\ attrs'["A"][X].t = "ref"
                   /\ Names(reg', pushed'[1].new_obj, attrs'["A"][X].o))]_vars

C3_Witness ==
  /\ last.op = "setattr"
  /\ last.o = "A"
  /\ last.old # last.new
  /\ last.new.t = "ref"
  /\ infoCalls = 2
  /\ Len(pushed) = 1

\* C4: an object is registered under one identifier for the whole session,
\* through register_object and through marshaling alike, and the registry
\* resolves that identifier to the object itself.
C4_IdentityStable ==
  \A o \in Objs :
     /\ Cardinality(issued[o]) <= 1
     /\ \A k \in issued[o] : k \in DOMAIN reg /\ reg[k] = RefV(o)

C4_Witness ==
  /\ last.op = "show"
  /\ last.again
  /\ \E o \in Objs : Cardinality(issued[o]) = 1

\* C5: _unmarshal(_marshal(v)) is v: the same value for a primitive, the
\* very same object for an instance or a list, registered before or not.
C5_RoundTrip ==
  last.op = "roundtrip" => last.ok /\ last.new = last.old

C5_Witness ==
  /\ last.op = "roundtrip"
  /\ last.old.t = "ref"
  /\ ~last.again
  /\ last.new = last.old

\* the Response carries failure class cls and a diagnostic string for it
Diag(rp, cls) ==
  /\ rp.status = "response"
  /\ rp.exception = cls
  /\ rp.result.type = "primitive"
  /\ rp.result.value.t = "repr"
  /\ rp.result.value.o = cls

\* r calls method m of A without further arguments
CallsOnA(r, rq, m) ==
  /\ rq.kind = "call_instance_method"
  /\ Len(rq.args) = 2
  /\ Names(r, rq.args[1], "A")
  /\ rq.args[2] = NameW(m)

C7_UnknownIdAborts ==
  [][(last'.op = "request" /\ HasUnknownId(reg, req'.args))
       => /\ resp'.status = "response"
          /\ resp'.exception # ""
          /\ HostSame]_vars

C7_Witness ==
  /\ IsRequest
  /\ req.kind = "set_instance_attribute"
  /\ Len(req.args) = 3
  /\ Names(reg, req.args[1], "A")
  /\ req.args[3] = Fake
  /\ notifiers["A"] > 0
  /\ resp.exception = "KeyError"

\* C8: when an element is appended to A.items and A is subscribed, one Event
\* is pushed; its attribute_name is "items" and its new_obj is list-tagged
\* and decodes to the list the attribute holds, whose elements are the old
\* ones followed by the appended one.
C8_AppendSendsWholeList ==
  [][(infoCalls >= 1 /\ Len(items'["LA"]) = Len(items["LA"]) + 1)
       => /\ Len(pushed') = 1
          /\ pushed'[1].kind = "object_changed"
          /\ pushed'[1].obj = Str(addr'["A"])
          /\ pushed'[1].attribute_name = ITEMS
          /\ pushed'[1].new_obj.type = "list"
          /\ Names(reg', pushed'[1].new_obj, attrs'["A"][ITEMS].o)
          /\ \E e \in Elems :
               items'[attrs'["A"][ITEMS].o] = Append(items["LA"], e)]_vars

C8_Witness ==
  /\ last.op = "append"
  /\ infoCalls >= 1
  /\ Len(items["LA"]) = 2
  /\ Len(pushed) = 1
  /\ pushed[1].attribute_name = ITEMS

\* C9: every instance- or list-tagged value the host emits, as the result of
\* a Response or as the new_obj of an Event, carries an id that is a key of
\* the registry and resolves to a live object with that id, and the obj of
\* every pushed Event is a key of the registry.
EmittedOk(w) ==
  w.type # "primitive"
    => /\ w.value.t = "str"
       /\ w.value.s \in DOMAIN reg
       /\ Str(addr[reg[w.value.s].o]) = w.value.s

C9_EmittedIdsRegistered ==
  /\ resp.status = "response" => EmittedOk(resp.result)
  /\ \A i \in 1..Len(pushed) :
       pushed[i].kind = "object_changed"
         => EmittedOk(pushed[i].new_obj) /\ pushed[i].obj \in DOMAIN reg

\* C10: the registry never evicts or rebinds: an issued id stays a key and
\* keeps resolving to the same, live object, whose id it still is, and two
\* registered objects never have the same id.
C10_NoEviction ==
  [][/\ \A k \in DOMAIN reg : k \in DOMAIN reg' /\ reg'[k] = reg[k]
     /\ \A k \in DOMAIN reg' : /\ addr'[reg'[k].o] # 0
                               /\ Str(addr'[reg'[k].o]) = k
     /\ \A o1, o2 \in Objs :
          (Registered(reg', o1) /\ Registered(reg', o2) /\ o1 # o2)
            => addr'[o1] # addr'[o2]]_vars

C10_Witness ==
  /\ \E t \in Temps : Registered(reg, t) /\ attrs["A"][X] # RefV(t)
  /\ Cardinality(DOMAIN reg) >= 4
  /\ last.op = "setattr"

\* rq is set_instance_attribute(A, a, v) with every argument resolved by r
SetsAttrOfA(r, rq) ==
  /\ rq.kind = "set_instance_attribute"
  /\ Len(rq.args) = 3
  /\ Names(r, rq.args[1], "A")
  /\ rq.args[2] \in {NameW(X), NameW(ITEMS)}
  /\ ~HasUnknownId(r, rq.args)

\* the step handled set_instance_attribute(A, a, v) without a failure
SetAttrDone ==
  /\ last'.op = "request"
  /\ SetsAttrOfA(reg, req')
  /\ resp'.status = "response"
  /\ resp'.exception = ""

\* the Response to get_instance_attribute(A, a) sent next, for the a of the
\* request just handled
ReadBack ==
  HandleRequest(St', Req("get_instance_attribute",
                         <<req'.args[1], req'.args[2]>>), "T1")

\* C11 as stated: a successful set_instance_attribute(A, a, v) answers with a
\* null exception and {primitive, null}, and the get_instance_attribute(A, a)
\* that follows it answers with the marshaled form of v: the primitive sent,
\* or the very identifier sent for a registered instance or list.
C11_ReadBackSameValue ==
  [][SetAttrDone
       => /\ resp'.result = PrimW(NoneV)
          /\ ReadBack.status = "response"
          /\ ReadBack.exception = ""
          /\ ReadBack.result = req'.args[3]]_vars

\* C11 amended: a successful set_instance_attribute(A, a, v) answers with a
\* null exception and {primitive, null}.  For an attribute that stores the
\* assigned object (x) the read that follows answers with the marshaled form
\* of v, the identifier sent included.  For the List trait items, which
\* stores a new list made from v, it answers with the list-tagged identifier
\* of another registered list, which holds the elements of v.
C11_ReadBackStoredValue ==
  [][SetAttrDone
       => /\ resp'.result = PrimW(NoneV)
          /\ ReadBack.status = "response"
          /\ ReadBack.exception = ""
          /\ req'.args[2] = NameW(X) => ReadBack.result = req'.args[3]
          /\ req'.args[2] = NameW(ITEMS)
               => /\ ReadBack.result.type = "list"
                  /\ ReadBack.result # req'.args[3]
                  /\ \E l \in TraitLists :
                       /\ Names(ReadBack.s.reg, ReadBack.result, l)
                       /\ attrs'["A"][ITEMS] = RefV(l)
                       /\ items'[l] = items[reg[req'.args[3].value.s].o]]_vars

C11_Witness ==
  /\ IsRequest
  /\ req.kind = "set_instance_attribute"
  /\ Len(req.args) = 3
  /\ req.args[2] = NameW(ITEMS)
  /\ req.args[3].type = "list"
  /\ resp.status = "response"
  /\ resp.exception = ""
  /\ attrs["A"][ITEMS] = RefV("LB")
  /\ Len(items["LB"]) = 1

\* the host value wire w stands for in registry r
Decoded(r, w) == IF w.type = "primitive" THEN w.value ELSE r[w.value.s]

\* rq is call_instance_method on object o for its method m, with the number
\* of arguments m takes, all resolved by r
CallsMethod(r, rq, o, m) ==
  /\ rq.kind = "call_instance_method"
  /\ Len(rq.args) = 2 + Arity(m)
  /\ ~HasUnknownId(r, rq.args)
  /\ Names(r, rq.args[1], o)
  /\ rq.args[2] = NameW(m)
  /\ m \in MethodsOf(RefV(o))

\* C12: a call_instance_method request naming a registered object, one of its
\* methods and that method's arguments invokes the method exactly once, on the
\* decoded arguments in the order sent; when the method returns, the Response
\* has a null exception and the marshaled return value: {primitive, r} for a
\* primitive r (a - b for sub, null for setx, blink and append), the
\* instance-tagged id of A for me, and for new a list-tagged id that the
\* registry resolves to the list the call created.  A request that names an
\* unknown id invokes nothing.
C12_MethodCalledOnce ==
  [][last'.op = "request"
       => /\ \A o \in Objs : \A m \in MethodsOf(RefV(o)) :
               CallsMethod(reg, req', o, m)
                 => /\ calls' = <<<<RefV(o), m,
                                   [i \in 1..Arity(m) |->
                                      Decoded(reg, req'.args[2 + i])]>>>>
                    /\ m \notin {FAIL, QUIT}
                         => /\ resp'.status = "response"
                            /\ resp'.exception = ""
                    /\ m = SUB
                         => resp'.result = PrimW(IntV(req'.args[3].value.i
                                                      - req'.args[4].value.i))
                    /\ m \in {SETX, BLINK, APPEND}
                         => resp'.result = PrimW(NoneV)
                    /\ m = ME => resp'.result = req'.args[1]
                    /\ m = NEWLIST
                         => /\ resp'.result.type = "list"
                            /\ \E t \in Temps :
                                 /\ addr[t] = 0
                                 /\ addr'[t] # 0
                                 /\ items'[t] = <<>>
                                 /\ Names(reg', resp'.result, t)
          /\ HasUnknownId(reg, req'.args) => calls' = <<>>
          /\ Len(calls') <= 1]_vars

C12_Witness ==
  /\ IsRequest
  /\ CallsMethod(reg, req, "A", SUB)
  /\ req.args[3] = PrimW(IntV(1))
  /\ req.args[4] = PrimW(IntV(0))
  /\ resp.result = PrimW(IntV(1))
  /\ Len(calls) = 1

\* a and b are equal to python's ==
SameValue(a, b) ==
  IF IsList(a) /\ IsList(b) THEN items[a.o] = items[b.o] ELSE a = b

RECURSIVE Changes(_, _)
\* those of the values vs, assigned one after the other to an attribute that
\* holds old, that change it
Changes(old, vs) ==
  IF vs = <<>> THEN <<>>
  ELSE IF SameValue(old, Head(vs)) THEN Changes(old, Tail(vs))
  ELSE <<Head(vs)>> \o Changes(Head(vs), Tail(vs))

\* the values rq has the host assign to A.x, in order: one for
\* set_instance_attribute and setx, v and then 0 for blink
Assigned(r, rq) ==
  IF rq.kind = "set_instance_attribute"
       /\ Len(rq.args) = 3
       /\ ~HasUnknownId(r, rq.args)
       /\ Names(r, rq.args[1], "A")
       /\ rq.args[2] = NameW(X)
  THEN <<Decoded(r, rq.args[3])>>
  ELSE IF CallsMethod(r, rq, "A", SETX) THEN <<Decoded(r, rq.args[3])>>
  ELSE IF CallsMethod(r, rq, "A", BLINK)
  THEN <<Decoded(r, rq.args[3]), IntV(0)>>
  ELSE <<>>

\* C13: while A is subscribed, a request that has the host assign A.x (by
\* set_instance_attribute, or by the methods setx and blink) pushes one Event
\* for each assignment that changes the value, in the order of the changes,
\* none merged and none dropped, each handed to the transport while the
\* request is being handled, so before its Response is returned; an Event of
\* a change the application makes between requests is pushed outside any
\* request.
C13_PushesUnbatched ==
  [][/\ (last'.op = "request" /\ notifiers["A"] > 0
           /\ Assigned(reg, req') # <<>>)
          => LET ch == Changes(attrs["A"][X], Assigned(reg, req'))
             IN /\ resp'.status = "response"
                /\ Len(pushed') = Len(ch)
                /\ \A i \in 1..Len(ch) :
                     /\ pushed'[i].kind = "object_changed"
                     /\ pushed'[i].obj = Str(addr["A"])
                     /\ pushed'[i].attribute_name = X
                     /\ Decoded(reg', pushed'[i].new_obj) = ch[i]
                     /\ pushed'[i].during = 1
     /\ last'.op \in {"setattr", "append"}
          => \A i \in 1..Len(pushed') : pushed'[i].during = 0]_vars

C13_Witness ==
  /\ IsRequest
  /\ CallsMethod(reg, req, "A", BLINK)
  /\ Len(pushed) = 2
  /\ pushed[1].new_obj = PrimW(IntV(1))
  /\ pushed[2].new_obj = PrimW(IntV(0))
  /\ pushed[1].during = 1
  /\ resp.status = "response"

\* C14: requests are dispatched one at a time: while a request is handled,
\* whatever its kind, no second Broker.handle_request is in progress, and
\* the request gets its Response.
C14_OneDispatchAtATime ==
  IsRequest => depth = 1 /\ resp.status # "none"

\* the texts that are not JSON
NotJson == {<<>>, <<"{">>}

\* C15: a message that is not valid JSON is not answered: json.loads raises
\* ValueError out of Bridge.handle_request, the Broker is not invoked, no
\* event is pushed, and registry, subscriptions, context and objects stay as
\* they were, so that the requests sent next are answered as they would have
\* been without it.
C15_MalformedNotAnswered ==
  [][(last'.op = "message" /\ last'.name \in NotJson)
       => /\ resp'.status = "raised"
          /\ resp'.exception = "ValueError"
          /\ depth' = 0
          /\ calls' = <<>>
          /\ reg' = reg
          /\ ctx' = ctx
          /\ issued' = issued
          /\ HostSame
          /\ \A r \in {Req("get_context", <<>>)}
                       \cup {Req("get_instance_attribute", <<o, NameW(X)>>) :
                               o \in RegWires} :
               HandleRequest(St', r, "T1") = HandleRequest(St, r, "T1")]_vars

C15_Witness ==
  /\ last.op = "message"
  /\ last.name = <<"{">>
  /\ resp.status = "raised"
  /\ notifiers["A"] > 0
  /\ Cardinality(DOMAIN reg) >= 2

\* C16: _marshal classifies by a fixed priority, the same on every call: a
\* list, one with a __dict__ of its own (a TraitListObject) included, is
\* registered and encoded {list, id}; any other object with a __dict__ is
\* registered and encoded {instance, id}; a number, a string or null is
\* encoded {primitive, v} and the registry stays as it was.
C16_ClassifiedByPriority ==
  [][last'.op = "roundtrip"
       => /\ (last'.old.t = "ref" /\ last'.old.o \in Lists)
               => /\ last'.o = "list"
                  /\ last'.name = Str(addr[last'.old.o])
                  /\ last'.name \in DOMAIN reg'
                  /\ reg'[last'.name] = last'.old
          /\ (last'.old.t = "ref" /\ last'.old.o \in Instances)
               => /\ last'.o = "instance"
                  /\ last'.name = Str(addr[last'.old.o])
                  /\ last'.name \in DOMAIN reg'
                  /\ reg'[last'.name] = last'.old
          /\ last'.old.t # "ref"
               => /\ last'.o = "primitive"
                  /\ reg' = reg]_vars

C16_Witness ==
  /\ last.op = "roundtrip"
  /\ last.old = RefV("LA")
  /\ last.o = "list"
  /\ last.again

\* the step handled get_instance_info on an object other than A
InfoOnOther ==
  /\ last'.op = "request"
  /\ req'.kind = "get_instance_info"
  /\ Len(req'.args) = 1
  /\ \E o \in Objs \ {"A"} : Names(reg, req'.args[1], o)

C18_ContextFollowsShow ==
  last.op = "show"
    => LET h == HandleRequest(St, Req("get_context", <<>>), "T1")
       IN /\ h.status = "response"
          /\ h.exception = ""
          /\ h.result.value.d = {<<"model", "str", "", Str(addr[last.o])>>}
          /\ Str(addr[last.o]) \in DOMAIN reg
          /\ reg[Str(addr[last.o])] = RefV(last.o)

\* the step handled set_list_item(L, i, v) for the list o and an int i, with
\* every argument resolved
SetsItem(o) ==
  /\ last'.op = "request"
  /\ req'.kind = "set_list_item"
  /\ Len(req'.args) = 3
  /\ ~HasUnknownId(reg, req'.args)
  /\ Names(reg, req'.args[1], o)
  /\ req'.args[2].type = "primitive"
  /\ req'.args[2].value.t = "int"

\* the Response to request kind(L, args) sent before, after the step
Before(kind, args) == HandleRequest(St, Req(kind, args), "T1")
After(kind, args) == HandleRequest(St', Req(kind, args), "T1")

\* C19: for a registered list L and 0 <= i < len(L), set_list_item(L, i, v)
\* succeeds, the get_list_item(L, i) that follows returns the marshaled form
\* of v, get_list_info(L) reports the length it reported before, and the
\* other elements of L are as before; for any other index the Response has a
\* non-null exception and L is as before.
C19_ItemRoundTrip ==
  [][\A o \in Lists :
       SetsItem(o)
         => LET i == req'.args[2].value.i
                n == Len(items[o])
            IN /\ (0 <= i /\ i < n)
                    => /\ resp'.status = "response"
                       /\ resp'.exception = ""
                       /\ After("get_list_item", SubSeq(req'.args, 1, 2)).result
                            = req'.args[3]
                       /\ After("get_list_info", <<req'.args[1]>>).result
                            = Before("get_list_info", <<req'.args[1]>>).result
                       /\ Len(items'[o]) = n
                       /\ \A j \in 1..n : j # i + 1 => items'[o][j] = items[o][j]
               /\ ~(0 <= i /\ i < n)
                    => /\ resp'.status = "response"
                       /\ resp'.exception # ""
                       /\ items'[o] = items[o]]_vars

\* the names the descriptor in Response rp lists under key
Listed(rp, key) == {e[4] : e \in {f \in rp.result.value.d : f[1] = key}}

\* C20: the descriptor get_instance_info returns for a registered object
\* lists no name that starts with an underscore, lists no method of the
\* object among attribute_names, and lists among method_names every public
\* method the object's own class declares.
C20_OnlyPublicMembers ==
  \A o \in Objs :
     (/\ IsRequest
      /\ req.kind = "get_instance_info"
      /\ Len(req.args) = 1
      /\ Names(reg, req.args[1], o)
      /\ resp.status = "response"
      /\ resp.exception = "")
       => /\ \A n \in Listed(resp, "attribute_names")
                      \cup Listed(resp, "method_names") : n[1] # "_"
          /\ Listed(resp, "attribute_names") \cap MethodsOf(RefV(o)) = {}
          /\ {m \in PythonMethods(RefV(o)) : m[1] # "_"}
               \subseteq Listed(resp, "method_names")


\* C21: however the threads' guess_type calls interleave, mimetypes.init()
\* is executed at most once, and no thread starts its mimetypes.guess_type
\* lookup (line 28) before that one initialization has returned.
C21_InitOnceBeforeLookup ==
  /\ initCalls <= 1
  /\ \A t \in Threads :
       /\ At(t, "28") => initDone = 1
       /\ ~thr[t].early

\* a thread that saw the flag unset takes the lock after another thread's
\* initialization, and that other thread has finished its lookup
C21_Witness ==
  \E t \in Threads : \E u \in Threads \ {t} :
     /\ At(u, "25")
     /\ mimeInitialized
     /\ At(t, "done")
     /\ thr[t].started = <<"200 OK">>
     /\ thr[t].exc = ""


\* the answer C26 describes for a request of the given PATH_INFO
Described(info) ==
  LET path == CleanPath(info)
  IN IF path \in DOMAIN Overrides /\ Overrides[path] # NoneV
     THEN [started |-> <<"200 OK">>, body |-> <<Overrides[path]>>]
     ELSE IF Join(Root, path) \in DOMAIN Files
     THEN [started |-> <<"200 OK">>, body |-> <<Files[Join(Root, path)]>>]
     ELSE [started |-> <<"404 File not found">>, body |-> <<>>]

\* C26: the FileLoader answers every request by calling start_response
\* exactly once: 200 and the canned body when the cleaned path has an
\* override that is not None (even when a file of that path exists), 200 and
\* the file's bytes when there is no override and the file exists under
\* root, 404 and an empty body otherwise.
C26_AnsweredOnce ==
  \A t \in Threads :
     At(t, "done") =>
       /\ thr[t].started = Described(thr[t].env).started
       /\ thr[t].body = Described(thr[t].env).body
       /\ thr[t].exc = ""


\* C22: after any sequence of assignments to the bridge attribute of any
\* brokers, a broker b whose bridge is x (not None) is the broker of x, and a
\* bridge that is the bridge of no broker has broker None.
C22_MutuallyLinked ==
  /\ \A b \in Brokers : bridge[b] # None => broker[bridge[b]] = b
  /\ \A x \in Bridges : (\A b \in Brokers : bridge[b] # x) => broker[x] = None


\* C23: a zoom value assigned before the control exists is applied when the
\* control is created: after zoom = z followed by create(), the control's
\* zoom factor is z and reading zoom returns z.
C23_PendingZoomApplied ==
  (wlast.op = "create" /\ wlast.pending # 0) =>
     /\ control # 0
     /\ controls[control] = wlast.pending
     /\ wlast.value = wlast.pending

\* C24: in every lifecycle state (never created, created, already destroyed)
\* destroy() completes without raising and leaves control equal to None.
C24_DestroyHarmless ==
  wlast.op = "destroy" => (wlast.raised = "" /\ control = 0)


\* C25: _load_html returns, and show() goes on to show the control, only
\* after the loadFinished signal of the load it started has been delivered,
\* never on a signal delivered before that load began; when that signal is
\* delivered, it eventually returns.
C25_BlocksUntilLoaded ==
  /\ [][(showPc = "waiting" /\ showPc' = "idle") => finished = loads]_vars
  /\ (showPc = "waiting") ~> (showPc = "idle")

\* a second show() has returned: the flag the first load left set was reset
\* and set again by the second load's signal
C25_Witness ==
  /\ showPc = "idle"
  /\ loads = 2
  /\ finished = 2
  /\ loadFinished

====
